---- MODULE Spec2Model ----
(***************************************************************************)
(* QHF (QIP history file) decoder: qhf_export.py.                          *)
(*                                                                         *)
(* A file is a sequence of bytes (0..255).  A stream is the pair of the    *)
(* file's bytes and a cursor `pos` (bytes consumed so far); f.read(n)      *)
(* returns at most n bytes from the cursor and moves the cursor past them. *)
(* Python's None is the empty set and a present value x is {x}.            *)
(* A decoded str is the sequence of its code points.                       *)
(* An unsigned 32-bit field is the pair <<high 16 bits, low 16 bits>>, its *)
(* value being high * 65536 + low: the integers available here are 32-bit  *)
(* signed, and the fields of the format reach 2^32 - 1.                    *)
(***************************************************************************)
EXTENDS Integers, Sequences, FiniteSets, TLC

VARIABLES
    input,          \* how the file under decode was built (history only)
    data,           \* bytes of the file under decode
    pos,            \* cursor of the open stream f
    pc,             \* position inside parse_qhf_file
    header_info,    \* dict built by parse_qhf_header
    messages,       \* list built by parse_qhf_messages
    msg_counter,    \* parse_qhf_messages: msg_counter
    nreads,         \* number of f.read calls issued by parse_qhf_messages
    iters,          \* number of passes through the while loop
    log,            \* records handed to logging, in order
    result,         \* value returned by parse_qhf_file
    msg_bytes,      \* argument of decrypt_message
    decrypted,      \* value returned by decrypt_message
    files,          \* main: *.qhf files of the input directory
    file_count,     \* main: file_count
    success_count,  \* main: success_count
    failure_count,  \* main: failure_count
    outcomes        \* main: (header_info, messages) got for each file

vars == <<input, data, pos, pc, header_info, messages, msg_counter, nreads,
          iters, log, result, msg_bytes, decrypted, files, file_count,
          success_count, failure_count, outcomes>>

fileVars == <<input, data, pos, pc, header_info, messages, msg_counter,
              nreads, iters, log, result>>
cryptVars == <<msg_bytes, decrypted>>
batchVars == <<files, file_count, success_count, failure_count, outcomes>>

(***************************************************************************)
(* Bounds of the model.                                                    *)
(***************************************************************************)
MaxRecs == 2        \* well-formed records per generated file
MaxLen == 3         \* free bytes of a decrypt_message argument
MaxJunk == 36       \* bytes of uniform junk after the records
MaxFiles == 2       \* files of a directory

(***************************************************************************)
(* Bytes, integers and bit operations.                                     *)
(***************************************************************************)
None == {}
Some(x) == {x}

Min(a, b) == IF a < b THEN a ELSE b

RECURSIVE BitAnd(_, _)
BitAnd(a, b) ==
    IF a = 0 \/ b = 0 THEN 0
    ELSE ((a % 2) * (b % 2)) + 2 * BitAnd(a \div 2, b \div 2)

RECURSIVE BitXor(_, _)
BitXor(a, b) ==
    IF a = 0 THEN b
    ELSE IF b = 0 THEN a
    ELSE (((a % 2) + (b % 2)) % 2) + 2 * BitXor(a \div 2, b \div 2)

\* struct.unpack('>H', b) and struct.unpack('>I', b)
UnpackH(b) == b[1] * 256 + b[2]
UnpackI(b) == <<b[1] * 256 + b[2], b[3] * 256 + b[4]>>

\* unsigned 32-bit pairs: from and to a small integer, and n < value(u)
U32(n) == <<n \div 65536, n % 65536>>
IntOf(u) == u[1] * 65536 + u[2]
LessU(n, u) ==
    \/ n \div 65536 < u[1]
    \/ n \div 65536 = u[1] /\ n % 65536 < u[2]

\* file.read(n) at cursor p: the bytes returned
Read(d, p, n) == SubSeq(d, p + 1, Min(p + n, Len(d)))

\* file.read(u) for an unsigned 32-bit count u
ReadU(d, p, u) ==
    IF LessU(Len(d) - p, u) THEN SubSeq(d, p + 1, Len(d))
    ELSE SubSeq(d, p + 1, p + IntOf(u))

\* msg_header[a:b] for 0 <= a <= b <= len
Slice(s, a, b) == SubSeq(s, a + 1, b)

(***************************************************************************)
(* bytes.decode('utf8') and the latin1 fallback.                           *)
(***************************************************************************)
IsContByte(c) == c >= 128 /\ c <= 191
IsCont(b, i) == i <= Len(b) /\ IsContByte(b[i])

\* number of bytes of the well-formed UTF-8 sequence starting at b[i], 0 if none
Utf8SeqLen(b, i) ==
    LET c == b[i] IN
    IF c <= 127 THEN 1
    ELSE IF c >= 194 /\ c <= 223 THEN (IF IsCont(b, i + 1) THEN 2 ELSE 0)
    ELSE IF c >= 224 /\ c <= 239 THEN
        (IF /\ IsCont(b, i + 1) /\ IsCont(b, i + 2)
            /\ (c = 224 => b[i + 1] >= 160)
            /\ (c = 237 => b[i + 1] <= 159)
         THEN 3 ELSE 0)
    ELSE IF c >= 240 /\ c <= 244 THEN
        (IF /\ IsCont(b, i + 1) /\ IsCont(b, i + 2) /\ IsCont(b, i + 3)
            /\ (c = 240 => b[i + 1] >= 144)
            /\ (c = 244 => b[i + 1] <= 143)
         THEN 4 ELSE 0)
    ELSE 0

Utf8CodePoint(b, i, n) ==
    IF n = 1 THEN b[i]
    ELSE IF n = 2 THEN (b[i] - 192) * 64 + (b[i + 1] - 128)
    ELSE IF n = 3 THEN
        ((b[i] - 224) * 64 + (b[i + 1] - 128)) * 64 + (b[i + 2] - 128)
    ELSE (((b[i] - 240) * 64 + (b[i + 1] - 128)) * 64 + (b[i + 2] - 128)) * 64
         + (b[i + 3] - 128)

\* positions that are not continuation bytes: where a sequence has to start
Leads(b) == { i \in 1..Len(b) : ~IsContByte(b[i]) }

\* b is well-formed UTF-8: it starts with a sequence, and every sequence is
\* well formed and is followed by the end of b or by the next sequence
Utf8Valid(b) ==
    /\ Len(b) > 0 => ~IsContByte(b[1])
    /\ \A i \in Leads(b) :
          LET n == Utf8SeqLen(b, i) IN
          n > 0 /\ (i + n <= Len(b) => ~IsContByte(b[i + n]))

IsCodePoint(x) == x >= 0

\* the code points of well-formed b, in order
Utf8Decode(b) ==
    SelectSeq([i \in 1..Len(b) |->
                  IF IsContByte(b[i]) THEN -1
                  ELSE Utf8CodePoint(b, i, Utf8SeqLen(b, i))],
              IsCodePoint)

\* b.decode('latin1', errors='replace'): every byte is its own code point
Latin1Decode(b) == [i \in 1..Len(b) |-> b[i]]

\* try b.decode('utf8') except UnicodeDecodeError: warn, b.decode('latin1')
DecodeText(b) ==
    IF Utf8Valid(b)
    THEN [text |-> Utf8Decode(b), fallback |-> FALSE]
    ELSE [text |-> Latin1Decode(b), fallback |-> TRUE]

\* variant: ^ applied before &, i.e. (v + i) & (0xFF ^ 0xFF)
decrypt_message_XorFirst(b) ==
    [i \in 1..Len(b) |-> BitAnd(b[i] + i, BitXor(255, 255))]

\* variant: positions counted from 0 (range(len) in place of range(1, len + 1))
decrypt_message_ZeroBased(b) ==
    [i \in 1..Len(b) |-> BitXor(BitAnd(b[i] + (i - 1), 255), 255)]

(***************************************************************************)
(* decrypt_message                                                         *)
(***************************************************************************)
decrypt_message(b) ==
    [i \in 1..Len(b) |-> BitXor(BitAnd(b[i] + i, 255), 255)]

(***************************************************************************)
(* Logging: one record per call of logging.warning / error / info.         *)
(***************************************************************************)
LogRec(level, msg, n) == [level |-> level, msg |-> msg, n |-> n]

(***************************************************************************)
(* parse_qhf_header, on a stream opened at offset 0.                       *)
(* raised = "none" when it returns header_info, else the ValueError.       *)
(***************************************************************************)
QHF == <<81, 72, 70>>       \* b'QHF'
header_size == 46           \* struct.calcsize('>3sBI36sH')

\* variant: only the first two bytes of the magic are compared
MagicOk_FirstTwo(magicbytes) == SubSeq(magicbytes, 1, 2) = SubSeq(QHF, 1, 2)

\* magicbytes == b'QHF'
MagicOk(magicbytes) == magicbytes = QHF

\* variant: the nickname length unpacked as a 4-byte field ('>{uin_len}sI')
UinStructSize_Wide(uin_len) == uin_len + 4

\* struct.calcsize(f'>{uin_len}sH'), struct.calcsize(f'>{nick_len}s')
UinStructSize(uin_len) == uin_len + 2
NickStructSize(nick_len) == nick_len

HeaderRaise(what, p) ==
    [raised |-> what, header_info |-> None, pos |-> p, log |-> <<>>]

parse_qhf_header(d) ==
    LET header_buf == Read(d, 0, header_size) IN
    IF Len(header_buf) < header_size
    THEN HeaderRaise("too_small", Len(header_buf))
    ELSE
    LET magicbytes == Slice(header_buf, 0, 3)
        version == header_buf[4]
        uin_len == UnpackH(Slice(header_buf, 44, 46))
        p1 == header_size
    IN
    IF ~MagicOk(magicbytes)
    THEN HeaderRaise("bad_magic", p1)
    ELSE
    LET uin_struct_size == UinStructSize(uin_len)
        uin_buf == Read(d, p1, uin_struct_size)
        p2 == p1 + Len(uin_buf)
    IN
    IF Len(uin_buf) < uin_struct_size
    THEN HeaderRaise("uin_truncated", p2)
    ELSE
    LET uin_bytes == Slice(uin_buf, 0, uin_len)
        nick_len == UnpackH(Slice(uin_buf, uin_len, uin_len + 2))
        uin == DecodeText(uin_bytes)
        nick_struct_size == NickStructSize(nick_len)
        nick_buf == Read(d, p2, nick_struct_size)
        p3 == p2 + Len(nick_buf)
    IN
    IF Len(nick_buf) < nick_struct_size
    THEN HeaderRaise("nick_truncated", p3)
    ELSE
    LET nick == DecodeText(nick_buf) IN
    [raised |-> "none",
     header_info |-> Some([version |-> version,
                           uin |-> uin.text,
                           nickname |-> nick.text]),
     pos |-> p3,
     log |-> (IF uin.fallback
              THEN <<LogRec("WARNING", "UIN decoding as UTF-8 failed", 0)>>
              ELSE <<>>)
             \o (IF nick.fallback
                 THEN <<LogRec("WARNING", "Nickname decoding as UTF-8 failed", 0)>>
                 ELSE <<>>)]

(***************************************************************************)
(* parse_qhf_messages                                                      *)
(***************************************************************************)
MESSAGE_TYPE_MAP ==
    [c \in {1, 2, 3, 5, 6, 13, 14, 80, 81} |->
        CASE c = 1 -> "Online message"
          [] c = 2 -> "Message sending date"
          [] c = 3 -> "Message sender"
          [] c = 5 -> "Authorization request"
          [] c = 6 -> "Friend request"
          [] c = 13 -> "Offline message"
          [] c = 14 -> "Authorization request accepted"
          [] c = 80 -> "QIP/ICQ service message (connection)"
          [] c = 81 -> "QIP/ICQ service message (birthday)"]

\* MESSAGE_TYPE_MAP.get(code, "Unknown")
TypeDescription(code) ==
    IF code \in DOMAIN MESSAGE_TYPE_MAP THEN MESSAGE_TYPE_MAP[code] ELSE "Unknown"

\* datetime.fromtimestamp(ts, tz=utc).isoformat(): the fields of
\* YYYY-MM-DDTHH:MM:SS+00:00, as <<year, month, day, hour, minute, second>>
IsoFormat(ts) ==
    LET q == ts[1] * 512 + (ts[2] \div 128)     \* ts div 128; 86400 = 675 * 128
        days == q \div 675
        secs == (q % 675) * 128 + (ts[2] % 128)
        z == days + 719468
        era == z \div 146097
        doe == z - era * 146097
        yoe == (doe - (doe \div 1460) + (doe \div 36524) - (doe \div 146096)) \div 365
        doy == doe - (365 * yoe + (yoe \div 4) - (yoe \div 100))
        mp == (5 * doy + 2) \div 153
        d == doy - ((153 * mp + 2) \div 5) + 1
        m == IF mp < 10 THEN mp + 3 ELSE mp - 9
        y == yoe + era * 400 + (IF m <= 2 THEN 1 ELSE 0)
    IN <<y, m, d, secs \div 3600, (secs % 3600) \div 60, secs % 60>>

Me == <<77, 101>>           \* 'Me'

\* variant: the version 2 layout for every file
MsgHeaderSize_V2Only(version) == 33

\* msg_header_size, from header_info's version
MsgHeaderSize(version) == IF version >= 3 THEN 35 ELSE 33

\* the dict appended to messages
Message(msg_header, text, username) ==
    LET msg_timestamp_unix == UnpackI(Slice(msg_header, 18, 22))
        is_outgoing == (msg_header[27] # 0)
        message_type_code == msg_header[28]
    IN [sender |-> IF is_outgoing THEN Me ELSE username,
        timestamp_unix |-> msg_timestamp_unix,
        timestamp_iso |-> IsoFormat(msg_timestamp_unix),
        is_outgoing |-> is_outgoing,
        message_type_code |-> message_type_code,
        message_type_description |-> TypeDescription(message_type_code),
        text |-> text]

\* msg_size: struct.unpack('>I', msg_header[-4:])[0]
MsgSize(msg_header) ==
    UnpackI(SubSeq(msg_header, Len(msg_header) - 3, Len(msg_header)))

\* struct.unpack('>I', b) raises struct.error unless b holds 4 bytes
StructError(b) == Len(b) # 4

\* variants: the short record header skipped like a short body; raised like
\* the short reads of parse_qhf_header
IncompleteHeaderExit_Continue == "continue"
IncompleteHeaderExit_Raise == "raise"

\* how the pass ends on a record header of fewer than msg_header_size bytes
IncompleteHeaderExit == "break"

\* variant: the short body raised like the short reads of parse_qhf_header
IncompleteBodyExit_Raise == "raise"

\* how the pass ends on a body of fewer than msg_size bytes
IncompleteBodyExit == "continue"

\* the except clauses of the loop body: the exit taken for an exception
ExceptExit(exc) == IF exc = "struct.error" THEN "break" ELSE "continue"

\* variants: the partial body left unread; the stream rewound to retry the record
PosAfterShortBody_Unread(p0, p1, got) == p1
PosAfterShortBody_Rewind(p0, p1, got) == p0

\* cursor after a body read that came up short: the read consumed what was
\* left after the record header; p0 = cursor at the start of the pass
PosAfterShortBody(p0, p1, got) == p1 + got

Pass(exit, p, msgs, ctr, reads, lg) ==
    [exit |-> exit, pos |-> p, messages |-> msgs, msg_counter |-> ctr,
     reads |-> reads, log |-> lg]

(* One pass through `while True:` with the cursor at p.                    *)
(* exit = "break", "continue", or "raise" when an exception leaves the     *)
(* function; reads = f.read calls the pass made.                           *)
LoopPass(d, p, hi, msgs, ctr) ==
    LET msg_header_size == MsgHeaderSize(hi.version)
        msg_header == Read(d, p, msg_header_size)
        p1 == p + Len(msg_header)
    IN
    IF Len(msg_header) = 0
    THEN Pass("break", p1, msgs, ctr, 1, <<>>)
    ELSE IF Len(msg_header) < msg_header_size
    THEN Pass(IncompleteHeaderExit, p1, msgs, ctr, 1,
              <<LogRec("WARNING", "Incomplete message header", Len(msg_header))>>)
    ELSE IF \/ StructError(Slice(msg_header, 18, 22))
            \/ StructError(SubSeq(msg_header, Len(msg_header) - 3, Len(msg_header)))
    THEN Pass(ExceptExit("struct.error"), p1, msgs, ctr + 1, 1,
              <<LogRec("ERROR", "Error unpacking message header/data", ctr + 1)>>)
    ELSE
    LET msg_size == MsgSize(msg_header)
        msg_body_encrypted == ReadU(d, p1, msg_size)
        got == Len(msg_body_encrypted)
    IN
    IF LessU(got, msg_size)
    THEN Pass(IncompleteBodyExit, PosAfterShortBody(p, p1, got), msgs, ctr + 1, 2,
              <<LogRec("WARNING", "Incomplete message body", ctr + 1)>>)
    ELSE
    LET msg_body_decrypted == decrypt_message(msg_body_encrypted)
        dec == DecodeText(msg_body_decrypted)
    IN Pass("continue", p1 + got,
            Append(msgs, Message(msg_header, dec.text, hi.nickname)),
            ctr + 1, 2,
            IF dec.fallback
            THEN <<LogRec("WARNING", "UTF-8 decoding failed", ctr + 1)>>
            ELSE <<>>)

\* parse_qhf_messages run from cursor p: <<"return", messages>>, or
\* <<"raise", ...>> when an exception leaves it
RECURSIVE RunLoop(_, _, _, _, _)
RunLoop(d, p, hi, msgs, ctr) ==
    LET r == LoopPass(d, p, hi, msgs, ctr) IN
    IF r.exit = "break" THEN <<"return", r.messages>>
    ELSE IF r.exit = "raise" THEN <<"raise", r.messages>>
    ELSE RunLoop(d, r.pos, hi, r.messages, r.msg_counter)

parse_qhf_messages(d, p, hi) == RunLoop(d, p, hi, <<>>, 0)

(***************************************************************************)
(* parse_qhf_file: the pair it returns                                     *)
(***************************************************************************)
parse_qhf_file(d) ==
    LET h == parse_qhf_header(d) IN
    IF h.raised # "none" THEN <<None, None>>
    ELSE LET hi == CHOOSE x \in h.header_info : TRUE
             m == parse_qhf_messages(d, h.pos, hi)
         IN IF m[1] = "raise" THEN <<None, None>>
            ELSE <<Some(hi), Some(m[2])>>

(***************************************************************************)
(* Files the decoder is run on.  A file is described by its header fields, *)
(* the well-formed records that follow, what comes after the last of them, *)
(* and the number of bytes kept when the file is cut short (-1: whole).    *)
(***************************************************************************)
\* bytes of the fixed record header in a file of the given version
RecordBytes(version) == IF version < 3 THEN 33 ELSE 35

PackH(n) == <<n \div 256, n % 256>>
PackI(u) == <<u[1] \div 256, u[1] % 256, u[2] \div 256, u[2] % 256>>

\* n bytes of the regions the decoder skips; never a byte of b'QHF', never 0
Filler(a, n) == [i \in 1..n |-> 160 + ((a + i) % 64)]

\* the inverse position-keyed transform that produced the stored bodies
qhf_encrypt(p) == [i \in 1..Len(p) |-> (BitXor(p[i], 255) - i) % 256]

BuildHeader(h) ==
    h.magic \o <<h.version>> \o PackI(U32(0)) \o Filler(8, 36)
    \o PackH(Len(h.uin)) \o h.uin \o PackH(Len(h.nick)) \o h.nick

\* fixed record header of rs bytes declaring `size` body bytes
BuildRecordHeader(r, rs, size) ==
    Filler(0, 18) \o PackI(r.ts) \o Filler(22, 4) \o <<r.flag, r.type>>
    \o Filler(28, rs - 32) \o PackI(size)

BuildRecord(r, rs) ==
    BuildRecordHeader(r, rs, U32(Len(r.plain))) \o qhf_encrypt(r.plain)

RECURSIVE BuildRecords(_, _)
BuildRecords(rs_, recs) ==
    IF recs = <<>> THEN <<>>
    ELSE BuildRecord(Head(recs), rs_) \o BuildRecords(rs_, Tail(recs))

TailRec == [ts |-> <<0, 7>>, flag |-> 1, type |-> 2, plain |-> <<>>]

BuildTail(t, rs) ==
    CASE t.kind = "none" -> <<>>
      [] t.kind = "shorthdr" -> SubSeq(BuildRecordHeader(TailRec, rs, U32(0)), 1, t.a[2])
      [] t.kind = "shortbody" ->
            BuildRecordHeader(TailRec, rs, t.a) \o [i \in 1..t.b |-> 0]
      [] t.kind = "junk" -> [i \in 1..t.b |-> t.a[2]]

BuildFile(in) ==
    LET rs == RecordBytes(in.hdr.version)
        whole == BuildHeader(in.hdr) \o BuildRecords(rs, in.recs)
                 \o BuildTail(in.tail, rs)
    IN IF in.cut < 0 THEN whole ELSE SubSeq(whole, 1, in.cut)

Ascii12345 == <<49, 50, 51, 52, 53>>
AsciiAlice == <<65, 108, 105, 99, 101>>
LongText == [i \in 1..258 |-> 48 + (i % 10)]

Hdr(m, v, u, n) == [magic |-> m, version |-> v, uin |-> u, nick |-> n]

GoodHeaders ==
    { Hdr(QHF, 2, Ascii12345, AsciiAlice),
      Hdr(QHF, 3, Ascii12345, AsciiAlice),
      Hdr(QHF, 3, <<>>, <<>>),
      Hdr(QHF, 2, <<255, 49>>, <<195, 169>>),
      Hdr(QHF, 255, LongText, <<65>>),
      Hdr(QHF, 0, <<49>>, LongText) }

BadMagics == { <<81, 72, 71>>, <<113, 72, 70>>, <<0, 0, 0>>, <<70, 72, 81>> }

BadHeaders ==
    { Hdr(m, h.version, h.uin, h.nick) :
        m \in BadMagics,
        h \in { Hdr(QHF, 2, Ascii12345, AsciiAlice), Hdr(QHF, 3, <<>>, <<>>) } }

RecChoices ==
    { [ts |-> <<0, 0>>, flag |-> 0, type |-> 1, plain |-> <<>>],
      [ts |-> <<258, 772>>, flag |-> 1, type |-> 13, plain |-> <<72, 105>>],
      [ts |-> <<14523, 3072>>, flag |-> 0, type |-> 81, plain |-> <<195, 169>>],
      [ts |-> <<65535, 65535>>, flag |-> 255, type |-> 99, plain |-> <<255, 195, 169>>] }

RecSeqs(n) == UNION { [1..k -> RecChoices] : k \in 0..n }

TailOf(kind, a, b) == [kind |-> kind, a |-> a, b |-> b]
NoTail == TailOf("none", <<0, 0>>, 0)

ShortHdrTails(rs) ==
    { TailOf("shorthdr", <<0, n>>, 0) : n \in { k \in {1, 18, 27, 29, 32, 34} : k < rs } }

ShortBodyTails ==
    { TailOf("shortbody", <<0, 1>>, 0), TailOf("shortbody", <<0, 3>>, 2),
      TailOf("shortbody", <<0, 100>>, 40), TailOf("shortbody", <<256, 0>>, 1),
      TailOf("shortbody", <<32768, 0>>, 36),
      TailOf("shortbody", <<65535, 65535>>, 0),
      TailOf("shortbody", <<65535, 65535>>, 5) }

JunkTails == { TailOf("junk", <<0, b>>, n) : b \in {0, 255}, n \in 33..MaxJunk }

Tails(rs) == {NoTail} \cup ShortHdrTails(rs) \cup ShortBodyTails \cup JunkTails

In(h, recs, t, cut) == [hdr |-> h, recs |-> recs, tail |-> t, cut |-> cut]

\* cuts inside the header region
HeaderCuts(h) ==
    LET ul == Len(h.uin)
        n == Len(BuildHeader(h))
    IN { c \in {0, 1, 2, 3, 4, 45, 46, 47, 46 + ul, 47 + ul, 48 + ul, n - 1} :
            c < n }

WholeInputs ==
    { In(h, recs, t, -1) :
        h \in GoodHeaders, recs \in RecSeqs(MaxRecs), t \in Tails(35) }

Inputs ==
    { in \in WholeInputs : in.tail \in Tails(RecordBytes(in.hdr.version)) }
    \cup { In(h, recs, NoTail, -1) : h \in BadHeaders, recs \in RecSeqs(1) }
    \cup UNION { { In(h, <<>>, NoTail, c) : c \in HeaderCuts(h) } :
                    h \in GoodHeaders \cup BadHeaders }

(***************************************************************************)
(* Spec: parse_qhf_file on one file, one step per call of the header       *)
(* parser, per pass of the record loop, and for the return.                *)
(***************************************************************************)
IdleCrypt == msg_bytes = <<>> /\ decrypted = None
IdleBatch ==
    /\ files = <<>> /\ file_count = 0 /\ success_count = 0
    /\ failure_count = 0 /\ outcomes = <<>>
IdleFile ==
    /\ data = <<>> /\ pos = 0 /\ header_info = None /\ messages = <<>>
    /\ msg_counter = 0 /\ nreads = 0 /\ iters = 0 /\ result = <<>>

Init ==
    /\ input \in Inputs
    /\ data = BuildFile(input)
    /\ pos = 0
    /\ pc = "open"
    /\ header_info = None
    /\ messages = <<>>
    /\ msg_counter = 0
    /\ nreads = 0
    /\ iters = 0
    /\ log = <<>>
    /\ result = <<>>
    /\ IdleCrypt
    /\ IdleBatch

\* with open(...) as f: header_info = parse_qhf_header(f), and the
\* `except ValueError` arm when it raises
ParseHeader ==
    /\ pc = "open"
    /\ \E h \in {parse_qhf_header(data)} :
        /\ pos' = h.pos
        /\ header_info' = h.header_info
        /\ IF h.raised = "none"
           THEN /\ pc' = "loop"
                /\ log' = <<LogRec("INFO", "Processing file", 0)>> \o h.log
                /\ result' = result
           ELSE /\ pc' = "done"
                /\ log' = <<LogRec("INFO", "Processing file", 0),
                            LogRec("ERROR", h.raised, 0)>>
                /\ result' = <<None, None>>
    /\ UNCHANGED <<input, data, messages, msg_counter, nreads, iters>>
    /\ UNCHANGED <<cryptVars, batchVars>>

\* one pass of the while loop of parse_qhf_messages; an exception leaving
\* it would be caught by the except clauses of parse_qhf_file
ReadRecord ==
    /\ pc = "loop"
    /\ \E hi \in header_info :
       \E r \in {LoopPass(data, pos, hi, messages, msg_counter)} :
          /\ pos' = r.pos
          /\ messages' = r.messages
          /\ msg_counter' = r.msg_counter
          /\ nreads' = nreads + r.reads
          /\ pc' = CASE r.exit = "break" -> "return"
                      [] r.exit = "continue" -> "loop"
                      [] r.exit = "raise" -> "done"
          /\ log' = log \o r.log
                     \o (IF r.exit = "raise"
                         THEN <<LogRec("ERROR", "Error parsing QHF file", 0)>>
                         ELSE <<>>)
          /\ result' = IF r.exit = "raise" THEN <<None, None>> ELSE result
    /\ iters' = iters + 1
    /\ UNCHANGED <<input, data, header_info>>
    /\ UNCHANGED <<cryptVars, batchVars>>

\* return messages; parse_qhf_file logs and returns header_info, messages
Return ==
    /\ pc = "return"
    /\ result' = <<header_info, Some(messages)>>
    /\ log' = Append(log, LogRec("INFO", "Successfully parsed", Len(messages)))
    /\ pc' = "done"
    /\ UNCHANGED <<input, data, pos, header_info, messages, msg_counter,
                   nreads, iters>>
    /\ UNCHANGED <<cryptVars, batchVars>>

Next == ParseHeader \/ ReadRecord \/ Return

Spec == Init /\ [][Next]_vars

(***************************************************************************)
(* SpecDecrypt: decrypt_message applied to a byte sequence.  `input` is    *)
(* the sequence drawn; msg_bytes is it, or it put through qhf_encrypt.     *)
(***************************************************************************)
ByteSample == {0, 1, 127, 128, 254, 255}
Pad(n) == [i \in 1..n |-> (7 * i + 3) % 256]
PadLens == {0, 253, 255}

ByteSeqs ==
    { Pad(n) \o s : n \in PadLens,
                    s \in UNION { [1..k -> ByteSample] : k \in 0..MaxLen } }

InitDecrypt ==
    /\ input \in ByteSeqs
    /\ msg_bytes \in {input, qhf_encrypt(input)}
    /\ decrypted = None
    /\ pc = "call"
    /\ log = <<>>
    /\ IdleFile
    /\ IdleBatch

Decrypt ==
    /\ pc = "call"
    /\ decrypted' = Some(decrypt_message(msg_bytes))
    /\ pc' = "done"
    /\ UNCHANGED <<input, data, pos, header_info, messages, msg_counter,
                   nreads, iters, log, result, msg_bytes, batchVars>>

NextDecrypt == Decrypt

SpecDecrypt == InitDecrypt /\ [][NextDecrypt]_vars

(***************************************************************************)
(* SpecBatch: the directory loop of main over the *.qhf files found.       *)
(***************************************************************************)
BatchHeader == Hdr(QHF, 2, Ascii12345, AsciiAlice)
BatchRec == [ts |-> <<258, 772>>, flag |-> 1, type |-> 13, plain |-> <<72, 105>>]

BatchFiles ==
    { In(BatchHeader, recs, t, -1) :
        recs \in { <<>>, <<BatchRec>> },
        t \in { NoTail, TailOf("shorthdr", <<0, 1>>, 0), TailOf("shortbody", <<0, 3>>, 2) } }
    \cup { In(Hdr(QHF, 3, Ascii12345, AsciiAlice), <<BatchRec>>, NoTail, -1),
           In(Hdr(<<81, 72, 71>>, 2, Ascii12345, AsciiAlice), <<>>, NoTail, -1),
           In(Hdr(<<81, 72, 71>>, 2, Ascii12345, AsciiAlice), <<BatchRec>>, NoTail, -1),
           In(BatchHeader, <<>>, NoTail, 10),
           In(BatchHeader, <<>>, NoTail, 47) }

InitBatch ==
    /\ files \in UNION { [1..n -> BatchFiles] : n \in 1..MaxFiles }
    /\ file_count = 0
    /\ success_count = 0
    /\ failure_count = 0
    /\ outcomes = <<>>
    /\ pc = "for"
    /\ log = <<>>
    /\ input = <<>>
    /\ IdleFile
    /\ IdleCrypt

\* one pass of `for filename in os.listdir(input_path)` on a *.qhf file;
\* written = the output file could be written
ProcessFile ==
    /\ pc = "for"
    /\ file_count < Len(files)
    /\ file_count' = file_count + 1
    /\ \E out \in {parse_qhf_file(BuildFile(files[file_count + 1]))} :
        /\ outcomes' = Append(outcomes, out)
        /\ IF out[1] # None /\ out[2] # None
           THEN \E written \in BOOLEAN :
                    IF written
                    THEN /\ success_count' = success_count + 1
                         /\ failure_count' = failure_count
                    ELSE /\ success_count' = success_count
                         /\ failure_count' = failure_count + 1
           ELSE /\ success_count' = success_count
                /\ failure_count' = failure_count + 1
    /\ UNCHANGED <<fileVars, cryptVars, files>>

\* the summary, and sys.exit(1) if failure_count > 0
Summary ==
    /\ pc = "for"
    /\ file_count = Len(files)
    /\ pc' = IF failure_count > 0 THEN "exit 1" ELSE "exit 0"
    /\ log' = <<LogRec("INFO", "Total .qhf files found", file_count),
                LogRec("INFO", "Successfully converted", success_count),
                LogRec("INFO", "Failed conversions", failure_count)>>
    /\ UNCHANGED <<input, data, pos, header_info, messages, msg_counter,
                   nreads, iters, result, cryptVars, batchVars>>

NextBatch == ProcessFile \/ Summary

SpecBatch == InitBatch /\ [][NextBatch]_vars

(***************************************************************************)
(* What the decode of a built file has to give.                            *)
(***************************************************************************)
GoodHeader == input.hdr.magic = QHF /\ input.cut < 0
RecordSize == RecordBytes(input.hdr.version)
HeaderEnd == Len(BuildHeader(input.hdr))

ExpectedHeader ==
    [version |-> input.hdr.version,
     uin |-> DecodeText(input.hdr.uin).text,
     nickname |-> DecodeText(input.hdr.nick).text]

ExpectedMessage(r) ==
    [sender |-> IF r.flag # 0 THEN Me ELSE ExpectedHeader.nickname,
     timestamp_unix |-> r.ts,
     timestamp_iso |-> IsoFormat(r.ts),
     is_outgoing |-> (r.flag # 0),
     message_type_code |-> r.type,
     message_type_description |-> TypeDescription(r.type),
     text |-> DecodeText(r.plain).text]

ExpectedMessages == [i \in 1..Len(input.recs) |-> ExpectedMessage(input.recs[i])]

LastLog == log[Len(log)]

Rejected(what) ==
    /\ pc = "done"
    /\ header_info = None
    /\ result = <<None, None>>
    /\ LastLog = LogRec("ERROR", what, 0)

(* C1: a valid header followed by exactly N well-formed records (33-byte   *)
(* record headers below version 3, 35-byte from version 3 on) decodes to   *)
(* exactly the N messages of those records, in stream order.               *)
C1_AllRecordsInOrder ==
    (pc = "done" /\ GoodHeader /\ input.tail = NoTail)
        => result = <<Some(ExpectedHeader), Some(ExpectedMessages)>>

C1_Witness ==
    /\ pc = "done" /\ GoodHeader /\ input.tail = NoTail
    /\ input.hdr.version >= 3
    /\ Len(input.recs) >= 2 /\ input.recs[1] # input.recs[2]
    /\ Len(messages) = Len(input.recs)

(* C2: when record k declares more body bytes than the stream still holds, *)
(* the k-1 messages before it are returned, nothing else is appended, and  *)
(* the decode ends normally.                                               *)
C2_ShortBodyDropsRecord ==
    (pc = "done" /\ GoodHeader /\ input.tail.kind = "shortbody")
        => /\ result = <<Some(ExpectedHeader), Some(ExpectedMessages)>>
           /\ msg_counter = Len(input.recs) + 1
           /\ pos = Len(data)

C2_Witness ==
    /\ pc = "done" /\ GoodHeader /\ input.tail.kind = "shortbody"
    /\ Len(input.recs) >= 1
    /\ input.tail.b >= RecordSize
    /\ Len(messages) = Len(input.recs)

(* C3: a stream shorter than the 46-byte fixed block is rejected as too    *)
(* small whatever its bytes; a stream of at least 46 bytes not starting    *)
(* with QHF is rejected for its magic whatever follows; no header is       *)
(* returned in either case.                                                *)
C3_RejectionOrder ==
    pc # "open" =>
        /\ Len(data) < header_size => Rejected("too_small")
        /\ (Len(data) >= header_size /\ SubSeq(data, 1, 3) # QHF)
              => Rejected("bad_magic")

C3_Witness ==
    /\ Rejected("bad_magic")
    /\ Len(data) >= header_size
    /\ input.cut >= 0 /\ Len(data) < HeaderEnd

(* C4: decrypt_message keeps the length, and its byte at 1-based position  *)
(* i is ((b[i] + i) mod 256) XOR 0xFF, i.e. 255 - ((b[i] + i) mod 256);    *)
(* the empty sequence gives the empty sequence.                            *)
C4_DecryptFormula ==
    pc = "done" =>
        \A out \in decrypted :
            /\ Len(out) = Len(msg_bytes)
            /\ \A i \in 1..Len(msg_bytes) :
                  out[i] = 255 - ((msg_bytes[i] + i) % 256)
            /\ msg_bytes = <<>> => out = <<>>

C4_Witness ==
    /\ pc = "done" /\ decrypted # None
    /\ Len(msg_bytes) > 256
    /\ msg_bytes[Len(msg_bytes)] + Len(msg_bytes) >= 512

(* C5: decrypt_message undoes the inverse position-keyed transform, and    *)
(* the transform undoes decrypt_message: on the sequences of each length   *)
(* it is a bijection.                                                      *)
C5_RoundTrip ==
    pc = "done" =>
        \A out \in decrypted :
            /\ msg_bytes = qhf_encrypt(input) => out = input
            /\ qhf_encrypt(out) = msg_bytes

C5_Witness ==
    /\ pc = "done" /\ decrypted = Some(input)
    /\ msg_bytes = qhf_encrypt(input) /\ msg_bytes # input
    /\ Len(input) > 256

(* C6: once the header has parsed, parse_qhf_file returns the header and a *)
(* message list whatever bytes follow the header.                          *)
C6_NoFailureAfterHeader ==
    (pc = "done" /\ header_info # None)
        => /\ result = <<header_info, Some(messages)>>
           /\ Len(messages) <= msg_counter

C6_Witness ==
    /\ pc = "done" /\ header_info # None
    /\ input.tail.kind = "junk" /\ input.tail.a = <<0, 255>>
    /\ msg_counter > Len(messages)
    /\ result = <<header_info, Some(messages)>>

(* C8: after a successful parse_qhf_header the cursor is at                *)
(* 46 + uin_len + 2 + nick_len, uin_len being the big-endian 16-bit value  *)
(* at offset 44 and nick_len the one at offset 46 + uin_len, which is the  *)
(* first byte of the first record; uin and nickname are decoded from       *)
(* exactly uin_len and nick_len bytes.                                     *)
C8_HeaderExtent ==
    (pc = "loop" /\ iters = 0) =>
        LET uin_len == data[45] * 256 + data[46]
            nick_len == data[47 + uin_len] * 256 + data[48 + uin_len]
        IN /\ pos = 46 + uin_len + 2 + nick_len
           /\ pos = HeaderEnd
           /\ \A hi \in header_info :
                /\ hi.uin = DecodeText(SubSeq(data, 47, 46 + uin_len)).text
                /\ hi.nickname =
                      DecodeText(SubSeq(data, 49 + uin_len,
                                        48 + uin_len + nick_len)).text

C8_Witness ==
    /\ pc = "loop" /\ iters = 0 /\ header_info # None
    /\ data[45] >= 1
    /\ Len(input.recs) >= 1
    /\ pos = HeaderEnd

(* C9: when the record header of record k comes up short (1 to             *)
(* record size - 1 bytes are left), the k-1 messages before it are         *)
(* returned, no read follows the short one, and the decode ends normally.  *)
C9_ShortHeaderStops ==
    (pc = "done" /\ GoodHeader /\ input.tail.kind = "shorthdr")
        => /\ result = <<Some(ExpectedHeader), Some(ExpectedMessages)>>
           /\ nreads = 2 * Len(input.recs) + 1
           /\ iters = Len(input.recs) + 1
           /\ msg_counter = Len(input.recs)

C9_Witness ==
    /\ pc = "done" /\ GoodHeader /\ input.tail.kind = "shorthdr"
    /\ input.tail.a[2] >= 29
    /\ Len(input.recs) >= 1
    /\ Len(messages) = Len(input.recs)

(* C10: every pass of the record loop stops the loop or moves the cursor   *)
(* forward by at least the record size, the cursor never moves back, and   *)
(* the passes number at most remaining length / record size + 1.           *)
C10_LoopProgress ==
    /\ [][pc = "loop" =>
            /\ pos' >= pos
            /\ pc' = "loop" => pos' >= pos + RecordSize]_vars
    /\ [](header_info # None =>
            iters <= ((Len(data) - HeaderEnd) \div RecordSize) + 1)

C10_Witness ==
    /\ pc = "loop" /\ iters >= 2
    /\ LastLog.msg = "Incomplete message body"
    /\ pos = Len(data)

(***************************************************************************)
(* What main gets for each file of a directory.                            *)
(***************************************************************************)
FileClass(in) ==
    IF in.hdr.magic # QHF \/ in.cut >= 0 THEN "rejected"
    ELSE IF in.tail = NoTail THEN "full"
    ELSE "partial"

Done == 1..Len(outcomes)

(* C7 as claimed: files that are fully decoded, partially decoded and      *)
(* rejected never hand main outcomes it cannot tell apart.                 *)
C7_ThreeCasesDistinct ==
    \A i \in Done : \A j \in Done :
        FileClass(files[i]) # FileClass(files[j]) => outcomes[i] # outcomes[j]

(* C7 as it holds: the outcome tells a rejected file (None, None) from a   *)
(* decoded one (the header and the list of the messages recovered, one per *)
(* complete record); a file decoded in full and a file cut short are both  *)
(* decoded files.                                                          *)
C7_TwoCasesDistinct ==
    /\ \A i \in Done : \A j \in Done :
          (FileClass(files[i]) = "rejected") # (FileClass(files[j]) = "rejected")
              => outcomes[i] # outcomes[j]
    /\ \A i \in Done :
          IF FileClass(files[i]) = "rejected"
          THEN outcomes[i] = <<None, None>>
          ELSE /\ outcomes[i][1] # None
               /\ \A ms \in outcomes[i][2] : Len(ms) = Len(files[i].recs)
               /\ outcomes[i][2] # None

C7_Witness ==
    /\ Len(outcomes) = 2
    /\ FileClass(files[1]) = "partial"
    /\ FileClass(files[2]) = "rejected"
    /\ outcomes[1] # outcomes[2]

====
